---- MODULE Spec2Model ----
(***************************************************************************)
(* Model of tensorflow/compiler/jit/flags.cc: the lazily initialized XLA   *)
(* JIT flag groups, their std::call_once initializer, the five accessors   *)
(* and AppendMarkForCompilationPassFlags.                                  *)
(*                                                                         *)
(* Text is modelled as a sequence of lexemes: a flag name is one lexeme,   *)
(* every other character ("=", " ", ",", a digit, a letter) is a lexeme of *)
(* its own.  Integer fields hold canonical decimal values (sign and digit  *)
(* sequence), so that the 64-bit maximum is representable.                 *)
(***************************************************************************)
EXTENDS Integers, Sequences, FiniteSets, TLC

\* ------------------------------------------------------------------ bounds
NumThreads == 2
MaxCalls == 3
MaxAllocs == 10
MaxSetterLen == 4

Threads == 1..NumThreads

\* ------------------------------------------------------------------ values
BoolV(b) == [k |-> "bool", b |-> b]
IntV(neg, digits) == [k |-> "int", neg |-> neg, digits |-> digits]
FloatV(neg, mant, exp) == [k |-> "float", neg |-> neg, mant |-> mant, exp |-> exp]
NamesV(names) == [k |-> "names", names |-> names]
\* A scalar member of a default-initialized aggregate (new T; with no
\* initializer): it holds no value until it is assigned.
Indeterminate == [k |-> "indeterminate"]

\* std::numeric_limits<int32>::max() and std::numeric_limits<int64>::max()
Int32Max == <<2, 1, 4, 7, 4, 8, 3, 6, 4, 7>>
Int64Max == <<9, 2, 2, 3, 3, 7, 2, 0, 3, 6, 8, 5, 4, 7, 7, 5, 8, 0, 7>>

\* ------------------------------------------------------------- text helpers
DigitChars == <<"0", "1", "2", "3", "4", "5", "6", "7", "8", "9">>
IsDigit(c) == \E i \in 1..10 : DigitChars[i] = c
DigitOf(c) == (CHOOSE i \in 1..10 : DigitChars[i] = c) - 1

AllDigits(s) == \A i \in 1..Len(s) : IsDigit(s[i])
ToDigits(s) == [i \in 1..Len(s) |-> DigitOf(s[i])]

\* Index of the first occurrence of lexeme c in s, 0 when there is none.
IndexOf(s, c) ==
    IF \E i \in 1..Len(s) : s[i] = c
    THEN CHOOSE i \in 1..Len(s) : s[i] = c /\ \A j \in 1..(i - 1) : s[j] # c
    ELSE 0

AllZero(d) == \A i \in 1..Len(d) : d[i] = 0

\* d without its leading zeros (a single 0 for zero).
StripLeadingZeros(d) ==
    IF d = <<>> THEN d
    ELSE IF AllZero(d) THEN <<0>>
    ELSE LET k == CHOOSE i \in 1..Len(d) :
                     d[i] # 0 /\ \A j \in 1..(i - 1) : d[j] = 0
         IN  SubSeq(d, k, Len(d))

\* d without its trailing zeros (a single 0 for zero).
StripTrailingZeros(d) ==
    IF d = <<>> THEN d
    ELSE IF AllZero(d) THEN <<0>>
    ELSE LET k == CHOOSE i \in 1..Len(d) :
                     d[i] # 0 /\ \A j \in (i + 1)..Len(d) : d[j] = 0
         IN  SubSeq(d, 1, k)

\* a <= b for canonical digit sequences (no leading zeros).
LexLeq(a, b) ==
    \/ a = b
    \/ \E i \in 1..Len(a) : a[i] < b[i] /\ \A j \in 1..(i - 1) : a[j] = b[j]

DigitsLeq(a, b) ==
    \/ Len(a) < Len(b)
    \/ Len(a) = Len(b) /\ LexLeq(a, b)

\* The digit sequence of a + 1.
DigitsSucc(d) ==
    IF \A i \in 1..Len(d) : d[i] = 9
    THEN <<1>> \o [i \in 1..Len(d) |-> 0]
    ELSE LET k == CHOOSE i \in 1..Len(d) :
                     d[i] < 9 /\ \A j \in (i + 1)..Len(d) : d[j] = 9
         IN  [i \in 1..Len(d) |->
                IF i < k THEN d[i] ELSE IF i = k THEN d[i] + 1 ELSE 0]

\* Value of a short digit sequence as a number (exponents only).
RECURSIVE DigitsToNat(_)
DigitsToNat(d) ==
    IF d = <<>> THEN 0 ELSE 10 * DigitsToNat(SubSeq(d, 1, Len(d) - 1)) + d[Len(d)]

\* absl::StrSplit(sequence, ','): the pieces between the commas, in order;
\* n commas give n + 1 pieces, the empty text gives one empty piece.
RECURSIVE StrSplit(_, _)
StrSplit(s, sep) ==
    LET i == IndexOf(s, sep)
    IN  IF i = 0 THEN <<s>>
        ELSE <<SubSeq(s, 1, i - 1)>> \o StrSplit(SubSeq(s, i + 1, Len(s)), sep)

\* ------------------------------------------------------- value conversions
\* The conversions of the flag parser (tensorflow::Flags::Parse, reached
\* through xla::ParseFlagsFromEnvAndDieIfUnknown): text to a typed value.
Failed == [ok |-> FALSE, val |-> Indeterminate]
Parsed(v) == [ok |-> TRUE, val |-> v]

TrueText == <<"t", "r", "u", "e">>
FalseText == <<"f", "a", "l", "s", "e">>

ParseBool(hasValue, s) ==
    IF ~hasValue THEN Parsed(BoolV(TRUE))
    ELSE IF s = TrueText THEN Parsed(BoolV(TRUE))
    ELSE IF s = FalseText THEN Parsed(BoolV(FALSE))
    ELSE Failed

\* A decimal integer that fits the field's width; max is the digit sequence
\* of the largest value of the width.
ParseInt(hasValue, s, max) ==
    LET neg == Len(s) > 0 /\ s[1] = "-"
        body == IF neg THEN Tail(s) ELSE s
    IN  IF ~hasValue \/ body = <<>> \/ ~AllDigits(body) THEN Failed
        ELSE LET d == StripLeadingZeros(ToDigits(body))
                 limit == IF neg THEN DigitsSucc(max) ELSE max
             IN  IF DigitsLeq(d, limit)
                 THEN Parsed(IntV(neg /\ d # <<0>>, d))
                 ELSE Failed

\* mant * 10^exp with mant free of leading and trailing zeros.
NormalFloat(neg, digits, exp) ==
    LET d1 == StripLeadingZeros(digits)
        d2 == StripTrailingZeros(d1)
    IN  IF d1 = <<0>> THEN FloatV(FALSE, <<0>>, 0)
        ELSE FloatV(neg, d2, exp + (Len(d1) - Len(d2)))

\* The exponent text: at most three digits.
ExpDigits(t) ==
    IF Len(t) \in 1..3 /\ AllDigits(t)
    THEN [ok |-> TRUE, val |-> DigitsToNat(ToDigits(t))]
    ELSE [ok |-> FALSE, val |-> 0]

NegateExp(e) == [ok |-> e.ok, val |-> 0 - e.val]

SignedExp(t) ==
    IF Len(t) > 0 /\ t[1] = "-" THEN NegateExp(ExpDigits(Tail(t)))
    ELSE ExpDigits(t)

MantissaParts(intPart, fracPart) ==
    IF AllDigits(intPart) /\ AllDigits(fracPart)
       /\ Len(intPart) + Len(fracPart) > 0
    THEN [ok |-> TRUE, digits |-> ToDigits(intPart \o fracPart),
          frac |-> Len(fracPart)]
    ELSE [ok |-> FALSE, digits |-> <<0>>, frac |-> 0]

Mantissa(m) ==
    LET dot == IndexOf(m, ".")
    IN  IF dot = 0 THEN MantissaParts(m, <<>>)
        ELSE MantissaParts(SubSeq(m, 1, dot - 1), SubSeq(m, dot + 1, Len(m)))

FloatOf(neg, mant, exp) ==
    IF mant.ok /\ exp.ok
    THEN Parsed(NormalFloat(neg, mant.digits, exp.val - mant.frac))
    ELSE Failed

UnsignedFloat(neg, body) ==
    LET ePos == IndexOf(body, "e")
    IN  IF ePos = 0
        THEN FloatOf(neg, Mantissa(body), [ok |-> TRUE, val |-> 0])
        ELSE FloatOf(neg, Mantissa(SubSeq(body, 1, ePos - 1)),
                     SignedExp(SubSeq(body, ePos + 1, Len(body))))

\* [-] digits [. digits] [e [-] digits]
ParseFloat(hasValue, s) ==
    IF ~hasValue THEN Failed
    ELSE IF Len(s) > 0 /\ s[1] = "-" THEN UnsignedFloat(TRUE, Tail(s))
    ELSE UnsignedFloat(FALSE, s)

ParseValue(kind, hasValue, s) ==
    CASE kind = "Bool" -> ParseBool(hasValue, s)
      [] kind = "Int32" -> ParseInt(hasValue, s, Int32Max)
      [] kind = "Int64" -> ParseInt(hasValue, s, Int64Max)
      [] kind = "Float" -> ParseFloat(hasValue, s)
      [] OTHER -> Failed

\* --------------------------------------------------------- storage (heap)
\* The five global pointers to the flag groups, in the order in which
\* AllocateAndParseFlags allocates them.
GroupOrder ==
    <<"build_ops_flags", "mark_for_compilation_flags", "device_flags",
      "ops_flags", "jitter_flags">>
Groups == {GroupOrder[i] : i \in 1..Len(GroupOrder)}

Addrs == 1..MaxAllocs
NullPtr == 0
FreeCell == [type |-> "free"]
NoObject == [type |-> "null"]

Allocated(h, a) == a \in DOMAIN h /\ h[a] # FreeCell
\* What a read through address a yields.
Deref(h, a) == IF a \in DOMAIN h THEN h[a] ELSE NoObject

FreeAddrs(h) == {a \in DOMAIN h : h[a] = FreeCell}
\* operator new: the address of a cell not in use.
NewAddr(h) == CHOOSE a \in FreeAddrs(h) : \A b \in FreeAddrs(h) : a <= b

\* new T (default-initialization): scalar members hold no value yet, the
\* vector member is default-constructed empty.
NewObject(g) ==
    CASE g = "build_ops_flags" ->
           [type |-> "BuildXlaOpsPassFlags",
            tf_xla_enable_lazy_compilation |-> Indeterminate,
            tf_xla_print_cluster_outputs |-> Indeterminate]
      [] g = "mark_for_compilation_flags" ->
           [type |-> "MarkForCompilationPassFlags",
            tf_xla_auto_jit |-> Indeterminate,
            tf_xla_min_cluster_size |-> Indeterminate,
            tf_xla_max_cluster_size |-> Indeterminate,
            tf_xla_clustering_debug |-> Indeterminate,
            tf_xla_cpu_global_jit |-> Indeterminate,
            tf_xla_clustering_fuel |-> Indeterminate,
            tf_xla_disable_deadness_safety_checks_for_debugging |-> Indeterminate]
      [] g = "device_flags" ->
           [type |-> "XlaDeviceFlags",
            tf_xla_compile_on_demand |-> Indeterminate]
      [] g = "ops_flags" ->
           [type |-> "XlaOpsCommonFlags",
            tf_xla_always_defer_compilation |-> Indeterminate]
      [] g = "jitter_flags" ->
           [type |-> "IntroduceFloatingPointJitterPassFlags",
            jitter_amount |-> Indeterminate,
            tensor_names |-> NamesV(<<>>)]

\* The assignments that follow each new in AllocateAndParseFlags.
BuildOpsDefaults(obj) ==
    [obj EXCEPT !.tf_xla_enable_lazy_compilation = BoolV(TRUE),
                !.tf_xla_print_cluster_outputs = BoolV(FALSE)]

\* Mutant: the minimum cluster size is left at zero.
MarkDefaultsZeroMin(obj) ==
    [obj EXCEPT !.tf_xla_auto_jit = IntV(FALSE, <<0>>),
                !.tf_xla_min_cluster_size = IntV(FALSE, <<0>>),
                !.tf_xla_max_cluster_size = IntV(FALSE, Int32Max),
                !.tf_xla_clustering_debug = BoolV(FALSE),
                !.tf_xla_cpu_global_jit = BoolV(FALSE),
                !.tf_xla_clustering_fuel = IntV(FALSE, Int64Max),
                !.tf_xla_disable_deadness_safety_checks_for_debugging =
                    BoolV(FALSE)]

MarkDefaults(obj) ==
    [obj EXCEPT !.tf_xla_auto_jit = IntV(FALSE, <<0>>),
                !.tf_xla_min_cluster_size = IntV(FALSE, <<4>>),
                !.tf_xla_max_cluster_size = IntV(FALSE, Int32Max),
                !.tf_xla_clustering_debug = BoolV(FALSE),
                !.tf_xla_cpu_global_jit = BoolV(FALSE),
                !.tf_xla_clustering_fuel = IntV(FALSE, Int64Max),
                !.tf_xla_disable_deadness_safety_checks_for_debugging =
                    BoolV(FALSE)]

DeviceDefaults(obj) == [obj EXCEPT !.tf_xla_compile_on_demand = BoolV(FALSE)]

OpsDefaults(obj) ==
    [obj EXCEPT !.tf_xla_always_defer_compilation = BoolV(FALSE)]

JitterDefaults(obj) == [obj EXCEPT !.jitter_amount = FloatV(FALSE, <<1>>, -5)]

AssignDefaults(g, obj) ==
    CASE g = "build_ops_flags" -> BuildOpsDefaults(obj)
      [] g = "mark_for_compilation_flags" -> MarkDefaults(obj)
      [] g = "device_flags" -> DeviceDefaults(obj)
      [] g = "ops_flags" -> OpsDefaults(obj)
      [] g = "jitter_flags" -> JitterDefaults(obj)

\* ------------------------------------------------------------- descriptors
\* Flag(name, T* dst, usage): the kind follows from the type of dst.
Flag(name, kind, addr, field) ==
    [name |-> name, kind |-> kind, addr |-> addr, field |-> field,
     setter |-> "none"]
\* Flag(name, std::function<bool(string)> hook, default, usage)
HookFlag(name, setter) ==
    [name |-> name, kind |-> "CustomSetter", addr |-> NullPtr,
     field |-> "none", setter |-> setter]

\* Mutant: the descriptor of tf_xla_min_cluster_size is bound to the field
\* of the descriptor that follows it.
NewMarkFlagsMisbound(m) ==
    <<Flag("tf_xla_auto_jit", "Int32", m, "tf_xla_auto_jit"),
      Flag("tf_xla_min_cluster_size", "Int32", m, "tf_xla_max_cluster_size"),
      Flag("tf_xla_max_cluster_size", "Int32", m, "tf_xla_max_cluster_size"),
      Flag("tf_xla_clustering_debug", "Bool", m, "tf_xla_clustering_debug"),
      Flag("tf_xla_cpu_global_jit", "Bool", m, "tf_xla_cpu_global_jit"),
      Flag("tf_xla_clustering_fuel", "Int64", m, "tf_xla_clustering_fuel"),
      Flag("tf_xla_disable_deadness_safety_checks_for_debugging", "Bool", m,
           "tf_xla_disable_deadness_safety_checks_for_debugging")>>

\* The braced list new_flags of AppendMarkForCompilationPassFlagsInternal;
\* m is the value of the global mark_for_compilation_flags when it is built.
NewMarkFlags(m) ==
    <<Flag("tf_xla_auto_jit", "Int32", m, "tf_xla_auto_jit"),
      Flag("tf_xla_min_cluster_size", "Int32", m, "tf_xla_min_cluster_size"),
      Flag("tf_xla_max_cluster_size", "Int32", m, "tf_xla_max_cluster_size"),
      Flag("tf_xla_clustering_debug", "Bool", m, "tf_xla_clustering_debug"),
      Flag("tf_xla_cpu_global_jit", "Bool", m, "tf_xla_cpu_global_jit"),
      Flag("tf_xla_clustering_fuel", "Int64", m, "tf_xla_clustering_fuel"),
      Flag("tf_xla_disable_deadness_safety_checks_for_debugging", "Bool", m,
           "tf_xla_disable_deadness_safety_checks_for_debugging")>>

\* Mutant: a descriptor whose name the vector already holds is left out.
InsertUnlessPresent(list, flags) ==
    LET IsNew(d) == \A i \in 1..Len(list) : list[i].name # d.name
    IN  list \o SelectSeq(flags, IsNew)
\* Mutant: the new descriptors are inserted at begin().
InsertAtBegin(list, flags) == flags \o list
\* flag_list->insert(flag_list->end(), new_flags.begin(), new_flags.end())
InsertAtEnd(list, flags) == list \o flags

\* Mutant: the descriptor of tf_xla_print_cluster_outputs is bound to the
\* field of the descriptor before it.
InitialFlagListMisbound(p) ==
    <<Flag("tf_xla_enable_lazy_compilation", "Bool", p["build_ops_flags"],
           "tf_xla_enable_lazy_compilation"),
      Flag("tf_xla_print_cluster_outputs", "Bool", p["build_ops_flags"],
           "tf_xla_enable_lazy_compilation"),
      Flag("tf_xla_compile_on_demand", "Bool", p["device_flags"],
           "tf_xla_compile_on_demand"),
      Flag("tf_xla_always_defer_compilation", "Bool", p["ops_flags"],
           "tf_xla_always_defer_compilation"),
      HookFlag("tf_introduce_floating_point_jitter_to_tensors",
               "setter_for_jitter_tensor_names"),
      Flag("tf_introduce_floating_point_jitter_amount", "Float",
           p["jitter_flags"], "jitter_amount")>>

\* The braced list that AllocateAndParseFlags gives new std::vector<Flag>;
\* p holds the global pointers.
InitialFlagList(p) ==
    <<Flag("tf_xla_enable_lazy_compilation", "Bool", p["build_ops_flags"],
           "tf_xla_enable_lazy_compilation"),
      Flag("tf_xla_print_cluster_outputs", "Bool", p["build_ops_flags"],
           "tf_xla_print_cluster_outputs"),
      Flag("tf_xla_compile_on_demand", "Bool", p["device_flags"],
           "tf_xla_compile_on_demand"),
      Flag("tf_xla_always_defer_compilation", "Bool", p["ops_flags"],
           "tf_xla_always_defer_compilation"),
      HookFlag("tf_introduce_floating_point_jitter_to_tensors",
               "setter_for_jitter_tensor_names"),
      Flag("tf_introduce_floating_point_jitter_amount", "Float",
           p["jitter_flags"], "jitter_amount")>>

\* Mutant: the names are put behind those tensor_names already holds.
SetterExtends(sequence, h, jf) ==
    [ok |-> TRUE,
     heap |-> IF Allocated(h, jf)
              THEN [h EXCEPT ![jf].tensor_names =
                                 NamesV(@.names \o StrSplit(sequence, ","))]
              ELSE h]

\* Mutant: the text is stored as one name, without being split.
SetterWithoutSplit(sequence, h, jf) ==
    [ok |-> TRUE,
     heap |-> IF Allocated(h, jf)
              THEN [h EXCEPT ![jf].tensor_names = NamesV(<<sequence>>)]
              ELSE h]

\* The lambda of AllocateAndParseFlags: it captures nothing and writes
\* through the global jitter_flags (jf) when it is called.
setter_for_jitter_tensor_names(sequence, h, jf) ==
    [ok |-> TRUE,
     heap |-> IF Allocated(h, jf)
              THEN [h EXCEPT ![jf].tensor_names = NamesV(StrSplit(sequence, ","))]
              ELSE h]

\* ------------------------------------------------------------ flag parser
\* xla::ParseFlagsFromEnvAndDieIfUnknown and tensorflow::Flags::Parse: the
\* environment text is cut into arguments at blanks, each argument is
\* name=value or a bare name, and every descriptor of the table with that
\* name converts the value by its kind and writes it through its target.
NonEmpty(piece) == piece # <<>>
SplitArgs(text) == SelectSeq(StrSplit(text, " "), NonEmpty)

ArgOf(piece) ==
    LET hasValue == Len(piece) >= 2 /\ piece[2] = "="
    IN  [name |-> piece[1],
         shaped |-> Len(piece) = 1 \/ hasValue,
         hasValue |-> hasValue,
         value |-> IF hasValue THEN SubSeq(piece, 3, Len(piece)) ELSE <<>>]

\* Descriptor d applied to argument a (whose name it bears).
FlagParse(d, a, h, jf) ==
    IF d.kind = "CustomSetter"
    THEN IF ~a.hasValue THEN [ok |-> FALSE, heap |-> h]
         ELSE IF d.setter = "setter_for_jitter_tensor_names"
         THEN setter_for_jitter_tensor_names(a.value, h, jf)
         ELSE [ok |-> TRUE, heap |-> h]
    ELSE LET r == ParseValue(d.kind, a.hasValue, a.value)
         IN  IF r.ok /\ Allocated(h, d.addr)
             THEN [ok |-> TRUE, heap |-> [h EXCEPT ![d.addr][d.field] = r.val]]
             ELSE [ok |-> FALSE, heap |-> h]

\* The descriptors of the table that bear the name, in table order.
Matching(table, name) ==
    LET BearsName(d) == d.name = name
    IN  SelectSeq(table, BearsName)

\* Argument a applied to the descriptors ds that bear its name: st
\* accumulates the storage and whether a value failed to convert.
RECURSIVE ParseArg(_, _, _, _)
ParseArg(ds, a, st, jf) ==
    IF ds = <<>> THEN st
    ELSE LET r == FlagParse(Head(ds), a, st.heap, jf)
         IN  ParseArg(Tail(ds), a,
                      [heap |-> r.heap, found |-> TRUE,
                       malformed |-> st.malformed \/ ~r.ok], jf)

RECURSIVE ParseArgs(_, _, _, _)
ParseArgs(table, args, st, jf) ==
    IF args = <<>> THEN st
    ELSE LET a == ArgOf(Head(args))
             ds == IF a.shaped THEN Matching(table, a.name) ELSE <<>>
             r == ParseArg(ds, a, [heap |-> st.heap, found |-> FALSE,
                                   malformed |-> FALSE], jf)
         IN  ParseArgs(table, Tail(args),
                       [heap |-> r.heap,
                        unknown |-> st.unknown \/ ~r.found,
                        malformed |-> st.malformed \/ r.malformed], jf)

\* Flags::Parse over the arguments of text.
ParseFlags(text, table, h, jf) ==
    ParseArgs(table, SplitArgs(text),
              [heap |-> h, unknown |-> FALSE, malformed |-> FALSE], jf)

\* Mutant: only an unknown name terminates the process; a value that does
\* not convert is reported to the caller.
ParseAndDieOnlyIfUnknown(text, table, h, jf) ==
    LET r == ParseFlags(text, table, h, jf)
    IN  [dies |-> r.unknown, heap |-> r.heap]

\* The parse of the environment text; dies tells whether the process is
\* terminated (an unknown name, or a value that does not convert).
ParseFlagsFromEnvAndDieIfUnknown(text, table, h, jf) ==
    LET r == ParseFlags(text, table, h, jf)
    IN  [dies |-> r.unknown \/ r.malformed, heap |-> r.heap]

\* ---------------------------------------------------------- the environment
\* Values of TF_XLA_FLAGS the process may be started with.
EnvStrings ==
    { <<>>,
      <<"tf_xla_min_cluster_size", "=", "1", "0", " ",
        "tf_xla_clustering_debug", "=", "t", "r", "u", "e">>,
      <<"not_a_real_flag", "=", "1">>,
      <<"tf_xla_min_cluster_size", "=", "1", "0", " ", "not_a_real_flag">>,
      <<"tf_xla_min_cluster_size", "=", "a", "b", "c">>,
      <<"tf_xla_max_cluster_size", "=", "2", "1", "4", "7", "4", "8", "3",
        "6", "4", "8">>,
      <<"tf_introduce_floating_point_jitter_to_tensors", "=", "a", ",", "b",
        ",", "c">>,
      <<"tf_introduce_floating_point_jitter_to_tensors", "=">>,
      <<"tf_xla_clustering_fuel", "=", "0", "0", "4", "2", " ",
        "tf_xla_auto_jit", "=", "-", "1", " ",
        "tf_introduce_floating_point_jitter_amount", "=", "0", ".", "0", "2",
        "5", "0", "e", "1">>,
      <<"tf_xla_compile_on_demand", " ", " ",
        "tf_xla_enable_lazy_compilation", "=", "f", "a", "l", "s", "e", " ",
        "tf_xla_always_defer_compilation", "=", "t", "r", "u", "e", " ",
        "tf_xla_min_cluster_size", "=", "7", " ",
        "tf_xla_min_cluster_size", "=", "0", "8">> }

\* -------------------------------------------------------------- operations
Accessors ==
    {"GetBuildXlaOpsPassFlags", "GetMarkForCompilationPassFlags",
     "GetXlaDeviceFlags", "GetXlaOpsCommonFlags",
     "GetIntroduceFloatingPointJitterPassFlags"}
AppendOp == "AppendMarkForCompilationPassFlags"

\* The global each accessor returns.
GroupOf(o) ==
    CASE o = "GetBuildXlaOpsPassFlags" -> "build_ops_flags"
      [] o = "GetMarkForCompilationPassFlags" -> "mark_for_compilation_flags"
      [] o = "GetXlaDeviceFlags" -> "device_flags"
      [] o = "GetXlaOpsCommonFlags" -> "ops_flags"
      [] o = "GetIntroduceFloatingPointJitterPassFlags" -> "jitter_flags"

\* The vector a caller passes to AppendMarkForCompilationPassFlags; it
\* already holds a descriptor of the caller's own.
TableIds == {"caller_table"}
NoTable == "none"
CallerFlag == HookFlag("caller_flag", "caller_setter")

VARIABLES
    env,          \* the text of TF_XLA_FLAGS
    alive,        \* FALSE once the process has been terminated
    flags_init,   \* std::once_flag: "idle", "running" or "done"
    heap,         \* the objects made by new
    ptr,          \* the five global group pointers
    flag_list,    \* the global std::vector<Flag>* and the vector it points to
    tables,       \* the callers' vectors
    pc,           \* where each thread is
    op,           \* the function each thread is in
    tab,          \* the flag_list argument of the thread's append call
    new_flags,    \* the local new_flags of the thread's append call
    handle,       \* the reference or pointer an accessor returned to the thread
    reads,        \* the values callers have read of each group so far
    calls,        \* calls made so far in the process
    hist          \* how many times each step of the program has run, the
                  \* texts external parse passes have been given, and the
                  \* last direct call of the custom setter

vars ==
    <<env, alive, flags_init, heap, ptr, flag_list, tables, pc, op, tab,
      new_flags, handle, reads, calls, hist>>

At(a) == [at |-> a, i |-> 0]
AtGroup(a, i) == [at |-> a, i |-> i]

NoHandle == [g |-> "none", addr |-> NullPtr]

\* The last direct call of the custom setter: none so far.
NoSetterCall ==
    [called |-> FALSE, input |-> <<>>, ok |-> FALSE, before |-> NamesV(<<>>)]

Init ==
    /\ env \in EnvStrings
    /\ alive = TRUE
    /\ flags_init = "idle"
    /\ heap = [a \in Addrs |-> FreeCell]
    /\ ptr = [g \in Groups |-> NullPtr]
    /\ flag_list = [null |-> TRUE, flags |-> <<>>]
    /\ tables = [id \in TableIds |-> <<CallerFlag>>]
    /\ pc = [t \in Threads |-> At("idle")]
    /\ op = [t \in Threads |-> "none"]
    /\ tab = [t \in Threads |-> NoTable]
    /\ new_flags = [t \in Threads |-> <<>>]
    /\ handle = [t \in Threads |-> NoHandle]
    /\ reads = [g \in Groups |-> {}]
    /\ calls = 0
    /\ hist = [init |-> 0, table |-> 0, parse |-> 0, returns |-> 0,
               appends |-> 0, ext |-> {},
               setter |-> NoSetterCall,
               alloc |-> [g \in Groups |-> 0],
               defaults |-> [g \in Groups |-> 0]]

\* std::call_once(flags_init, f): the caller runs f when no execution has
\* begun, returns when one has completed, and otherwise waits.
\* Mutant: a caller runs f whenever no execution has completed, also while
\* another caller is running it.
CallOnceRunsUnlessDone(flag) == flag # "done"
CallOnceRuns(flag) == flag = "idle"
\* Mutant: a caller that arrives while f is running does not wait for it.
CallOnceReturnsUnlessIdle(flag) == flag # "idle"
CallOnceReturns(flag) == flag = "done"

\* Where a function continues after its call_once.
AfterOnce(o) == IF o = AppendOp THEN At("new_flags") ELSE At("return")

\* A thread calls one of the six functions.
Call(t, o, id) ==
    /\ alive
    /\ pc[t].at = "idle"
    /\ calls < MaxCalls
    /\ \/ o \in Accessors /\ id = NoTable
       \/ o = AppendOp /\ id \in TableIds
    /\ pc' = [pc EXCEPT ![t] = At("call_once")]
    /\ op' = [op EXCEPT ![t] = o]
    /\ tab' = [tab EXCEPT ![t] = id]
    /\ calls' = calls + 1
    /\ UNCHANGED <<env, alive, flags_init, heap, ptr, flag_list, tables,
                   new_flags, handle, reads, hist>>

\* Mutant: AppendMarkForCompilationPassFlags goes on to build its
\* descriptors without waiting for the one-time initialization.
CallOncePassAppendUnguarded(t) ==
    /\ alive
    /\ pc[t].at = "call_once"
    /\ CallOnceReturns(flags_init) \/ op[t] = AppendOp
    /\ pc' = [pc EXCEPT ![t] = AfterOnce(op[t])]
    /\ UNCHANGED <<env, alive, flags_init, heap, ptr, flag_list, tables, op,
                   tab, new_flags, handle, reads, calls, hist>>

\* call_once finds initialization complete.
CallOncePass(t) ==
    /\ alive
    /\ pc[t].at = "call_once"
    /\ CallOnceReturns(flags_init)
    /\ pc' = [pc EXCEPT ![t] = AfterOnce(op[t])]
    /\ UNCHANGED <<env, alive, flags_init, heap, ptr, flag_list, tables, op,
                   tab, new_flags, handle, reads, calls, hist>>

\* call_once makes the caller the one that runs AllocateAndParseFlags.
CallOnceEnter(t) ==
    /\ alive
    /\ pc[t].at = "call_once"
    /\ ~CallOnceReturns(flags_init)
    /\ CallOnceRuns(flags_init)
    /\ flags_init' = "running"
    /\ pc' = [pc EXCEPT ![t] = AtGroup("new", 1)]
    /\ hist' = [hist EXCEPT !.init = @ + 1]
    /\ UNCHANGED <<env, alive, heap, ptr, flag_list, tables, op, tab,
                   new_flags, handle, reads, calls>>

\* g = new T;
InitNew(t) ==
    /\ alive
    /\ pc[t].at = "new"
    /\ FreeAddrs(heap) # {}
    /\ LET g == GroupOrder[pc[t].i]
           a == NewAddr(heap)
       IN  /\ heap' = [heap EXCEPT ![a] = NewObject(g)]
           /\ ptr' = [ptr EXCEPT ![g] = a]
           /\ hist' = [hist EXCEPT !.alloc[g] = @ + 1]
    /\ pc' = [pc EXCEPT ![t] = AtGroup("assign", pc[t].i)]
    /\ UNCHANGED <<env, alive, flags_init, flag_list, tables, op, tab,
                   new_flags, handle, reads, calls>>

\* g->field = default; for each scalar field of the group.
InitAssign(t) ==
    /\ alive
    /\ pc[t].at = "assign"
    /\ LET g == GroupOrder[pc[t].i]
       IN  /\ heap' = [heap EXCEPT ![ptr[g]] = AssignDefaults(g, @)]
           /\ hist' = [hist EXCEPT !.defaults[g] = @ + 1]
    /\ pc' = [pc EXCEPT ![t] = IF pc[t].i < Len(GroupOrder)
                               THEN AtGroup("new", pc[t].i + 1)
                               ELSE At("build_table")]
    /\ UNCHANGED <<env, alive, flags_init, ptr, flag_list, tables, op, tab,
                   new_flags, handle, reads, calls>>

\* flag_list = new std::vector<Flag>({...});
InitBuildTable(t) ==
    /\ alive
    /\ pc[t].at = "build_table"
    /\ flag_list' = [null |-> FALSE, flags |-> InitialFlagList(ptr)]
    /\ hist' = [hist EXCEPT !.table = @ + 1]
    /\ pc' = [pc EXCEPT ![t] = At("append_internal")]
    /\ UNCHANGED <<env, alive, flags_init, heap, ptr, tables, op, tab,
                   new_flags, handle, reads, calls>>

\* Mutant: initialization goes on to the parse without the call that
\* appends the clustering descriptors.
InitWithoutAppendInternal(t) ==
    /\ alive
    /\ pc[t].at = "append_internal"
    /\ pc' = [pc EXCEPT ![t] = At("parse")]
    /\ UNCHANGED <<env, alive, flags_init, heap, ptr, flag_list, tables, op,
                   tab, new_flags, handle, reads, calls, hist>>

\* AppendMarkForCompilationPassFlagsInternal(flag_list);
InitAppendInternal(t) ==
    /\ alive
    /\ pc[t].at = "append_internal"
    /\ flag_list' =
         [flag_list EXCEPT
            !.flags = InsertAtEnd(@, NewMarkFlags(ptr["mark_for_compilation_flags"]))]
    /\ pc' = [pc EXCEPT ![t] = At("parse")]
    /\ UNCHANGED <<env, alive, flags_init, heap, ptr, tables, op, tab,
                   new_flags, handle, reads, calls, hist>>

\* Mutant: the environment is parsed by a call that reports what it finds
\* and lets the process go on.
InitParseAndGoOn(t) ==
    /\ alive
    /\ pc[t].at = "parse"
    /\ LET r == ParseFlags(env, flag_list.flags, heap, ptr["jitter_flags"])
       IN  heap' = r.heap
    /\ pc' = [pc EXCEPT ![t] = At("once_done")]
    /\ hist' = [hist EXCEPT !.parse = @ + 1]
    /\ UNCHANGED <<env, alive, flags_init, ptr, flag_list, tables, op, tab,
                   new_flags, handle, reads, calls>>

\* xla::ParseFlagsFromEnvAndDieIfUnknown("TF_XLA_FLAGS", *flag_list);
InitParse(t) ==
    /\ alive
    /\ pc[t].at = "parse"
    /\ LET r == ParseFlagsFromEnvAndDieIfUnknown(env, flag_list.flags, heap,
                                                 ptr["jitter_flags"])
       IN  /\ heap' = r.heap
           /\ alive' = ~r.dies
           /\ pc' = [pc EXCEPT ![t] = IF r.dies THEN @ ELSE At("once_done")]
    /\ hist' = [hist EXCEPT !.parse = @ + 1]
    /\ UNCHANGED <<env, flags_init, ptr, flag_list, tables, op, tab,
                   new_flags, handle, reads, calls>>

\* Mutant: AllocateAndParseFlags returns and the flag is left as it was, so
\* that callers waiting on it are never released.
InitDoneWithoutRelease(t) ==
    /\ alive
    /\ pc[t].at = "once_done"
    /\ pc' = [pc EXCEPT ![t] = AfterOnce(op[t])]
    /\ UNCHANGED <<env, alive, flags_init, heap, ptr, flag_list, tables, op,
                   tab, new_flags, handle, reads, calls, hist>>

\* AllocateAndParseFlags returns and call_once marks the flag complete.
InitDone(t) ==
    /\ alive
    /\ pc[t].at = "once_done"
    /\ flags_init' = "done"
    /\ pc' = [pc EXCEPT ![t] = AfterOnce(op[t])]
    /\ UNCHANGED <<env, alive, heap, ptr, flag_list, tables, op, tab,
                   new_flags, handle, reads, calls, hist>>

\* return *g;  or  return g;
AccessorReturn(t) ==
    /\ alive
    /\ pc[t].at = "return"
    /\ handle' = [handle EXCEPT
                    ![t] = [g |-> GroupOf(op[t]), addr |-> ptr[GroupOf(op[t])]]]
    /\ pc' = [pc EXCEPT ![t] = At("use")]
    /\ op' = [op EXCEPT ![t] = "none"]
    /\ hist' = [hist EXCEPT !.returns = @ + 1]
    /\ UNCHANGED <<env, alive, flags_init, heap, ptr, flag_list, tables, tab,
                   new_flags, reads, calls>>

\* The caller reads the group through what the accessor returned.
Read(t) ==
    /\ alive
    /\ pc[t].at = "use"
    /\ reads' = [reads EXCEPT
                   ![handle[t].g] = @ \cup {Deref(heap, handle[t].addr)}]
    /\ handle' = [handle EXCEPT ![t] = NoHandle]
    /\ pc' = [pc EXCEPT ![t] = At("idle")]
    /\ UNCHANGED <<env, alive, flags_init, heap, ptr, flag_list, tables, op,
                   tab, new_flags, calls, hist>>

\* Mutant: building the descriptors also assigns the clustering defaults.
AppendNewFlagsAndDefaults(t) ==
    /\ alive
    /\ pc[t].at = "new_flags"
    /\ new_flags' =
         [new_flags EXCEPT ![t] = NewMarkFlags(ptr["mark_for_compilation_flags"])]
    /\ heap' = [heap EXCEPT ![ptr["mark_for_compilation_flags"]] = MarkDefaults(@)]
    /\ pc' = [pc EXCEPT ![t] = At("insert")]
    /\ UNCHANGED <<env, alive, flags_init, ptr, flag_list, tables, op, tab,
                   handle, reads, calls, hist>>

\* Mutant: the descriptors are bound to a clustering group of their own.
AppendNewFlagsOwnGroup(t) ==
    /\ alive
    /\ pc[t].at = "new_flags"
    /\ FreeAddrs(heap) # {}
    /\ LET a == NewAddr(heap)
       IN  /\ heap' = [heap EXCEPT
                         ![a] = MarkDefaults(NewObject("mark_for_compilation_flags"))]
           /\ new_flags' = [new_flags EXCEPT ![t] = NewMarkFlags(a)]
    /\ pc' = [pc EXCEPT ![t] = At("insert")]
    /\ UNCHANGED <<env, alive, flags_init, ptr, flag_list, tables, op, tab,
                   handle, reads, calls, hist>>

\* std::vector<Flag> new_flags = {...};
AppendNewFlags(t) ==
    /\ alive
    /\ pc[t].at = "new_flags"
    /\ new_flags' =
         [new_flags EXCEPT ![t] = NewMarkFlags(ptr["mark_for_compilation_flags"])]
    /\ pc' = [pc EXCEPT ![t] = At("insert")]
    /\ UNCHANGED <<env, alive, flags_init, heap, ptr, flag_list, tables, op,
                   tab, handle, reads, calls, hist>>

\* Mutant: the insert goes to the global flag_list, not to the parameter
\* of the same name.
AppendInsertGlobal(t) ==
    /\ alive
    /\ pc[t].at = "insert"
    /\ flag_list' = [flag_list EXCEPT !.flags = InsertAtEnd(@, new_flags[t])]
    /\ new_flags' = [new_flags EXCEPT ![t] = <<>>]
    /\ pc' = [pc EXCEPT ![t] = At("idle")]
    /\ op' = [op EXCEPT ![t] = "none"]
    /\ tab' = [tab EXCEPT ![t] = NoTable]
    /\ hist' = [hist EXCEPT !.returns = @ + 1, !.appends = @ + 1]
    /\ UNCHANGED <<env, alive, flags_init, heap, ptr, tables, handle, reads,
                   calls>>

\* flag_list->insert(...) on the caller's vector, then the function returns.
AppendInsert(t) ==
    /\ alive
    /\ pc[t].at = "insert"
    /\ tables' = [tables EXCEPT ![tab[t]] = InsertAtEnd(@, new_flags[t])]
    /\ new_flags' = [new_flags EXCEPT ![t] = <<>>]
    /\ pc' = [pc EXCEPT ![t] = At("idle")]
    /\ op' = [op EXCEPT ![t] = "none"]
    /\ tab' = [tab EXCEPT ![t] = NoTable]
    /\ hist' = [hist EXCEPT !.returns = @ + 1, !.appends = @ + 1]
    /\ UNCHANGED <<env, alive, flags_init, heap, ptr, flag_list, handle,
                   reads, calls>>

Next ==
    \E t \in Threads :
        \/ \E o \in Accessors \cup {AppendOp}, id \in TableIds \cup {NoTable} :
               Call(t, o, id)
        \/ CallOncePass(t)
        \/ CallOnceEnter(t)
        \/ InitNew(t)
        \/ InitAssign(t)
        \/ InitBuildTable(t)
        \/ InitAppendInternal(t)
        \/ InitParse(t)
        \/ InitDone(t)
        \/ AccessorReturn(t)
        \/ Read(t)
        \/ AppendNewFlags(t)
        \/ AppendInsert(t)

Spec == Init /\ [][Next]_vars

\* ------------------------------------------------------- fair scheduling
\* The steps of thread t inside a function of this file, the parse of the
\* environment apart: a thread that is in a call and is able to go on is
\* scheduled sooner or later.  Whether and when a thread calls, and what
\* it does with a result, is up to it.
StepInCall(t) ==
    \/ CallOncePass(t)
    \/ CallOnceEnter(t)
    \/ InitNew(t)
    \/ InitAssign(t)
    \/ InitBuildTable(t)
    \/ InitAppendInternal(t)
    \/ InitDone(t)
    \/ AccessorReturn(t)
    \/ AppendNewFlags(t)
    \/ AppendInsert(t)

\* The InitParse step of thread t, told by where the thread is and by the
\* count of parses: the step is possible whenever the thread is at the
\* parse, whatever the text.
ParseStep(t) ==
    /\ alive
    /\ pc[t].at = "parse"
    /\ hist' = [hist EXCEPT !.parse = @ + 1]

FairScheduling ==
    \A t \in Threads : WF_vars(StepInCall(t)) /\ WF_hist(ParseStep(t))

SpecFair == Init /\ [][Next]_vars /\ FairScheduling

\* ------------------------------------------------- an external parse pass
\* Texts a caller of AppendMarkForCompilationPassFlags parses against its
\* own vector once the clustering descriptors are in it.
ExtSetsMin == <<"tf_xla_min_cluster_size", "=", "1", "2">>
ExtSetsBools ==
    <<"tf_xla_clustering_debug", "=", "f", "a", "l", "s", "e", " ",
      "tf_xla_cpu_global_jit">>
ExtTexts == {ExtSetsMin, ExtSetsBools}

\* The caller runs Flags::Parse with text x over its vector.
ExternalParse(t, id, x) ==
    /\ alive
    /\ pc[t].at = "idle"
    /\ calls < MaxCalls
    /\ Len(tables[id]) > 1
    /\ x \notin hist.ext
    /\ heap' = ParseFlags(x, tables[id], heap, ptr["jitter_flags"]).heap
    /\ calls' = calls + 1
    /\ hist' = [hist EXCEPT !.ext = @ \cup {x}]
    /\ UNCHANGED <<env, alive, flags_init, ptr, flag_list, tables, pc, op,
                   tab, new_flags, handle, reads>>

NextExt ==
    \/ Next
    \/ \E t \in Threads, id \in TableIds, x \in ExtTexts : ExternalParse(t, id, x)

SpecExt == Init /\ [][NextExt]_vars

\* ------------------------------------------ writes through what was returned
\* Mutant: every accessor returns a pointer to its group.
ReturnsPointerForEveryGroup(g) == g \in Groups
\* The return types of the accessors: MarkForCompilationPassFlags* and
\* XlaDeviceFlags* are pointers to objects a caller may assign to; the
\* other three are references to const.
ReturnsPointer(g) == g \in {"mark_for_compilation_flags", "device_flags"}

\* The assignment a caller makes through a pointer to group g.
WrittenField(g) ==
    CASE g = "build_ops_flags" -> "tf_xla_print_cluster_outputs"
      [] g = "mark_for_compilation_flags" -> "tf_xla_cpu_global_jit"
      [] g = "device_flags" -> "tf_xla_compile_on_demand"
      [] g = "ops_flags" -> "tf_xla_always_defer_compilation"
      [] g = "jitter_flags" -> "jitter_amount"
WrittenValue(g) ==
    IF g = "jitter_flags" THEN FloatV(FALSE, <<1>>, 0) ELSE BoolV(TRUE)

\* The caller assigns to a field of the group through the pointer it holds;
\* a reference to const does not allow the assignment.
CallerWrite(t) ==
    /\ alive
    /\ pc[t].at = "use"
    /\ ReturnsPointer(handle[t].g)
    /\ Allocated(heap, handle[t].addr)
    /\ heap[handle[t].addr][WrittenField(handle[t].g)] # WrittenValue(handle[t].g)
    /\ heap' = [heap EXCEPT
                  ![handle[t].addr][WrittenField(handle[t].g)] =
                      WrittenValue(handle[t].g)]
    /\ UNCHANGED <<env, alive, flags_init, ptr, flag_list, tables, pc, op, tab,
                   new_flags, handle, reads, calls, hist>>

NextWrite ==
    \/ Next
    \/ \E t \in Threads : CallerWrite(t)

SpecWrite == Init /\ [][NextWrite]_vars

\* ------------------------------------------ appends that overlap in time
\* std::vector::insert is not one indivisible step: it reads the size and
\* the storage of the vector, and later writes them.  Here the insert of
\* line 65 is two steps, and calls on the same vector may be between them
\* at the same time.

\* Mutant: a lock keeps a second thread out of the insert on a vector
\* while a first is inside.
InsertBeginSerialized(t) ==
    /\ alive
    /\ pc[t].at = "insert"
    /\ \A u \in Threads \ {t} : ~(pc[u].at = "inserting" /\ tab[u] = tab[t])
    /\ pc' = [pc EXCEPT ![t] = AtGroup("inserting", Len(tables[tab[t]]))]
    /\ UNCHANGED <<env, alive, flags_init, heap, ptr, flag_list, tables, op,
                   tab, new_flags, handle, reads, calls, hist>>

\* The insert reads the vector: the thread remembers the size it found.
InsertBegin(t) ==
    /\ alive
    /\ pc[t].at = "insert"
    /\ pc' = [pc EXCEPT ![t] = AtGroup("inserting", Len(tables[tab[t]]))]
    /\ UNCHANGED <<env, alive, flags_init, heap, ptr, flag_list, tables, op,
                   tab, new_flags, handle, reads, calls, hist>>

\* Another insert on the same vector is, or has been, under way since
\* thread t read the vector.
Raced(t) ==
    \/ \E u \in Threads \ {t} : pc[u].at = "inserting" /\ tab[u] = tab[t]
    \/ Len(tables[tab[t]]) # pc[t].i

\* What a vector may hold when an insert that raced with another has
\* written it: the entries of both, or the entries the thread found when
\* it read the vector with its own behind them (the other's are lost).
RacedContents(t) ==
    LET found == IF pc[t].i <= Len(tables[tab[t]])
                 THEN pc[t].i
                 ELSE Len(tables[tab[t]])
    IN  {InsertAtEnd(tables[tab[t]], new_flags[t]),
         InsertAtEnd(SubSeq(tables[tab[t]], 1, found), new_flags[t])}

\* The insert writes the vector and the function returns.  Unsynchronized
\* inserts on one vector are a data race: the vector is left with one of
\* the contents above, or the process is terminated by a fault.
InsertEnd(t) ==
    /\ alive
    /\ pc[t].at = "inserting"
    /\ \/ /\ ~Raced(t)
          /\ tables' = [tables EXCEPT ![tab[t]] = InsertAtEnd(@, new_flags[t])]
          /\ alive' = alive
       \/ /\ Raced(t)
          /\ \E c \in RacedContents(t) : tables' = [tables EXCEPT ![tab[t]] = c]
          /\ alive' = alive
       \/ /\ Raced(t)
          /\ tables' = tables
          /\ alive' = FALSE
    /\ new_flags' = [new_flags EXCEPT ![t] = <<>>]
    /\ pc' = [pc EXCEPT ![t] = At("idle")]
    /\ op' = [op EXCEPT ![t] = "none"]
    /\ tab' = [tab EXCEPT ![t] = NoTable]
    /\ hist' = [hist EXCEPT !.returns = @ + 1, !.appends = @ + 1]
    /\ UNCHANGED <<env, flags_init, heap, ptr, flag_list, handle, reads, calls>>

NextRace ==
    \E t \in Threads :
        \/ \E o \in Accessors \cup {AppendOp}, id \in TableIds \cup {NoTable} :
               Call(t, o, id)
        \/ CallOncePass(t)
        \/ CallOnceEnter(t)
        \/ InitNew(t)
        \/ InitAssign(t)
        \/ InitBuildTable(t)
        \/ InitAppendInternal(t)
        \/ InitParse(t)
        \/ InitDone(t)
        \/ AccessorReturn(t)
        \/ Read(t)
        \/ AppendNewFlags(t)
        \/ InsertBegin(t)
        \/ InsertEnd(t)

SpecRace == Init /\ [][NextRace]_vars

\* ------------------------------------------------- the setter on its own
\* Texts the custom setter may be called with: names of one letter and
\* commas, up to MaxSetterLen characters.
SetterAlphabet == {"a", ","}
SetterInputs ==
    UNION {[1..n -> SetterAlphabet] : n \in 0..MaxSetterLen}

\* The storage once AllocateAndParseFlags has run with no override text:
\* the five groups in the order of their allocation, at their defaults.
PtrAfterInit ==
    [g \in Groups |-> CHOOSE i \in 1..Len(GroupOrder) : GroupOrder[i] = g]
HeapAfterInit ==
    [a \in Addrs |->
        IF a <= Len(GroupOrder)
        THEN AssignDefaults(GroupOrder[a], NewObject(GroupOrder[a]))
        ELSE FreeCell]

\* The process after an initialization with no override text: one call of
\* GetIntroduceFloatingPointJitterPassFlags has been made and its result
\* read, no call is under way.
InitSetter ==
    /\ env = <<>>
    /\ alive = TRUE
    /\ flags_init = "done"
    /\ heap = HeapAfterInit
    /\ ptr = PtrAfterInit
    /\ flag_list =
         [null |-> FALSE,
          flags |-> InsertAtEnd(InitialFlagList(PtrAfterInit),
                                NewMarkFlags(PtrAfterInit["mark_for_compilation_flags"]))]
    /\ tables = [id \in TableIds |-> <<CallerFlag>>]
    /\ pc = [t \in Threads |-> At("idle")]
    /\ op = [t \in Threads |-> "none"]
    /\ tab = [t \in Threads |-> NoTable]
    /\ new_flags = [t \in Threads |-> <<>>]
    /\ handle = [t \in Threads |-> NoHandle]
    /\ reads = [g \in Groups |->
                  IF g = "jitter_flags"
                  THEN {HeapAfterInit[PtrAfterInit[g]]}
                  ELSE {}]
    /\ calls = 1
    /\ hist = [init |-> 1, table |-> 1, parse |-> 1, returns |-> 1,
               appends |-> 0, ext |-> {},
               setter |-> NoSetterCall,
               alloc |-> [g \in Groups |-> 1],
               defaults |-> [g \in Groups |-> 1]]

\* The setter is called with text x, as the parser calls it for an
\* argument tf_introduce_floating_point_jitter_to_tensors=x.
ApplySetter(x) ==
    /\ alive
    /\ LET r == setter_for_jitter_tensor_names(x, heap, ptr["jitter_flags"])
       IN  /\ heap' = r.heap
           /\ hist' = [hist EXCEPT
                         !.setter =
                            [called |-> TRUE, input |-> x, ok |-> r.ok,
                             before |-> heap[ptr["jitter_flags"]].tensor_names]]
    /\ UNCHANGED <<env, alive, flags_init, ptr, flag_list, tables, pc, op,
                   tab, new_flags, handle, reads, calls>>

NextSetter == \E x \in SetterInputs : ApplySetter(x)

SpecSetter == InitSetter /\ [][NextSetter]_vars

\* ------------------------------------------------------------------ claims
\* A thread that has got past the call_once of the function it is in.
PastCallOnce(t) == pc[t].at \in {"return", "use", "new_flags", "insert"}

HistAtMostOnce ==
    /\ hist.init <= 1
    /\ hist.table <= 1
    /\ hist.parse <= 1
    /\ \A g \in Groups : hist.alloc[g] <= 1 /\ hist.defaults[g] <= 1

HistExactlyOnce ==
    /\ hist.init = 1
    /\ hist.table = 1
    /\ hist.parse = 1
    /\ \A g \in Groups : hist.alloc[g] = 1 /\ hist.defaults[g] = 1

\* C1: whatever the threads and the interleaving of their calls,
\* AllocateAndParseFlags is entered at most once, each group is allocated at
\* most once, its defaults are assigned at most once and the environment is
\* parsed at most once; and as soon as any call has got past its call_once
\* or has returned, each of these has happened exactly once.
C1_InitRunsExactlyOnce ==
    /\ HistAtMostOnce
    /\ (hist.returns > 0 \/ \E t \in Threads : PastCallOnce(t)) => HistExactlyOnce

\* An accessor and an append have returned and another call is past its
\* call_once, after a single initialization.
C1_Witness ==
    /\ hist.init = 1
    /\ hist.appends >= 1
    /\ hist.returns >= 2
    /\ \E t \in Threads : pc[t].at = "return"

\* No scalar field of the object is without a value.
NoIndeterminate(obj) ==
    \A f \in DOMAIN obj \ {"type"} : obj[f] # Indeterminate

InitComplete ==
    /\ flags_init = "done"
    /\ hist.parse >= 1
    /\ ~flag_list.null
    /\ \A g \in Groups : Allocated(heap, ptr[g]) /\ NoIndeterminate(heap[ptr[g]])

\* C2: a thread is at or past the return of an accessor only when
\* initialization has completed (all five groups allocated and assigned,
\* the table built, the environment parsed); every value read through a
\* returned reference is the group's value after the parse, with no field
\* left without a value, and all reads of a group yield the same value.
C2_ReadsAreComplete ==
    /\ \A t \in Threads : pc[t].at \in {"return", "use"} => InitComplete
    /\ \A g \in Groups :
          /\ Cardinality(reads[g]) <= 1
          /\ \A v \in reads[g] : v = Deref(heap, ptr[g]) /\ NoIndeterminate(v)

\* One caller has read the clustering group under an override and another
\* thread holds a reference to the same group.
C2_Witness ==
    /\ env # <<>>
    /\ reads["mark_for_compilation_flags"] # {}
    /\ \E t \in Threads :
          pc[t].at = "use" /\ handle[t].g = "mark_for_compilation_flags"

DefaultsOf(g) ==
    CASE g = "build_ops_flags" ->
           [type |-> "BuildXlaOpsPassFlags",
            tf_xla_enable_lazy_compilation |-> BoolV(TRUE),
            tf_xla_print_cluster_outputs |-> BoolV(FALSE)]
      [] g = "mark_for_compilation_flags" ->
           [type |-> "MarkForCompilationPassFlags",
            tf_xla_auto_jit |-> IntV(FALSE, <<0>>),
            tf_xla_min_cluster_size |-> IntV(FALSE, <<4>>),
            tf_xla_max_cluster_size |->
                IntV(FALSE, <<2, 1, 4, 7, 4, 8, 3, 6, 4, 7>>),
            tf_xla_clustering_debug |-> BoolV(FALSE),
            tf_xla_cpu_global_jit |-> BoolV(FALSE),
            tf_xla_clustering_fuel |->
                IntV(FALSE, <<9, 2, 2, 3, 3, 7, 2, 0, 3, 6, 8, 5, 4, 7, 7, 5,
                              8, 0, 7>>),
            tf_xla_disable_deadness_safety_checks_for_debugging |-> BoolV(FALSE)]
      [] g = "device_flags" ->
           [type |-> "XlaDeviceFlags",
            tf_xla_compile_on_demand |-> BoolV(FALSE)]
      [] g = "ops_flags" ->
           [type |-> "XlaOpsCommonFlags",
            tf_xla_always_defer_compilation |-> BoolV(FALSE)]
      [] g = "jitter_flags" ->
           [type |-> "IntroduceFloatingPointJitterPassFlags",
            jitter_amount |-> FloatV(FALSE, <<1>>, -5),
            tensor_names |-> NamesV(<<>>)]

\* C3: with an empty TF_XLA_FLAGS every value read through an accessor is
\* the group with each field at its hard-coded default.
C3_EmptyEnvGivesDefaults ==
    env = <<>> => \A g \in Groups : \A v \in reads[g] : v = DefaultsOf(g)

\* Three groups, the clustering and jitter groups among them, have been read
\* with an empty environment.
C3_Witness ==
    /\ env = <<>>
    /\ reads["mark_for_compilation_flags"] # {}
    /\ reads["jitter_flags"] # {}
    /\ reads["build_ops_flags"] # {}

\* The override texts of EnvStrings that name only flags of the table and
\* give each a value of its type.
EnvCluster ==
    <<"tf_xla_min_cluster_size", "=", "1", "0", " ",
      "tf_xla_clustering_debug", "=", "t", "r", "u", "e">>
EnvJitterNames ==
    <<"tf_introduce_floating_point_jitter_to_tensors", "=", "a", ",", "b",
      ",", "c">>
EnvJitterNoNames == <<"tf_introduce_floating_point_jitter_to_tensors", "=">>
EnvNumbers ==
    <<"tf_xla_clustering_fuel", "=", "0", "0", "4", "2", " ",
      "tf_xla_auto_jit", "=", "-", "1", " ",
      "tf_introduce_floating_point_jitter_amount", "=", "0", ".", "0", "2",
      "5", "0", "e", "1">>
EnvBools ==
    <<"tf_xla_compile_on_demand", " ", " ",
      "tf_xla_enable_lazy_compilation", "=", "f", "a", "l", "s", "e", " ",
      "tf_xla_always_defer_compilation", "=", "t", "r", "u", "e", " ",
      "tf_xla_min_cluster_size", "=", "7", " ",
      "tf_xla_min_cluster_size", "=", "0", "8">>
WellFormedEnvs ==
    {<<>>, EnvCluster, EnvJitterNames, EnvJitterNoNames, EnvNumbers, EnvBools}

\* The value of group g that text e asks for: the defaults with the named
\* fields replaced by the supplied values.
ExpectedAfter(e, g) ==
    CASE e = EnvCluster /\ g = "mark_for_compilation_flags" ->
           [DefaultsOf(g) EXCEPT !.tf_xla_min_cluster_size = IntV(FALSE, <<1, 0>>),
                                 !.tf_xla_clustering_debug = BoolV(TRUE)]
      [] e = EnvJitterNames /\ g = "jitter_flags" ->
           [DefaultsOf(g) EXCEPT
              !.tensor_names = NamesV(<<<<"a">>, <<"b">>, <<"c">>>>)]
      [] e = EnvJitterNoNames /\ g = "jitter_flags" ->
           [DefaultsOf(g) EXCEPT !.tensor_names = NamesV(<< <<>> >>)]
      [] e = EnvNumbers /\ g = "mark_for_compilation_flags" ->
           [DefaultsOf(g) EXCEPT !.tf_xla_clustering_fuel = IntV(FALSE, <<4, 2>>),
                                 !.tf_xla_auto_jit = IntV(TRUE, <<1>>)]
      [] e = EnvNumbers /\ g = "jitter_flags" ->
           [DefaultsOf(g) EXCEPT !.jitter_amount = FloatV(FALSE, <<2, 5>>, -2)]
      [] e = EnvBools /\ g = "device_flags" ->
           [DefaultsOf(g) EXCEPT !.tf_xla_compile_on_demand = BoolV(TRUE)]
      [] e = EnvBools /\ g = "build_ops_flags" ->
           [DefaultsOf(g) EXCEPT !.tf_xla_enable_lazy_compilation = BoolV(FALSE)]
      [] e = EnvBools /\ g = "ops_flags" ->
           [DefaultsOf(g) EXCEPT !.tf_xla_always_defer_compilation = BoolV(TRUE)]
      [] e = EnvBools /\ g = "mark_for_compilation_flags" ->
           [DefaultsOf(g) EXCEPT !.tf_xla_min_cluster_size = IntV(FALSE, <<8>>)]
      [] OTHER -> DefaultsOf(g)

\* C4: for an override text that names only recognized flags with
\* well-formed values the process is not terminated, and every value read
\* through an accessor has each named field at the supplied value and every
\* other field at its default; with tf_xla_min_cluster_size=10 and
\* tf_xla_clustering_debug=true the clustering group reads 10 and true.
C4_OverridesApplied ==
    env \in WellFormedEnvs =>
        /\ alive
        /\ \A g \in Groups : \A v \in reads[g] : v = ExpectedAfter(env, g)

\* The clustering group has been read as 10 / true under that override, and
\* the jitter group has been read as well.
C4_Witness ==
    /\ env = EnvCluster
    /\ \E v \in reads["mark_for_compilation_flags"] :
          /\ v.tf_xla_min_cluster_size = IntV(FALSE, <<1, 0>>)
          /\ v.tf_xla_clustering_debug = BoolV(TRUE)
          /\ v.tf_xla_auto_jit = IntV(FALSE, <<0>>)
    /\ reads["jitter_flags"] # {}

\* The thirteen names of the table that initialization builds.
KnownFlagNames ==
    {"tf_xla_enable_lazy_compilation", "tf_xla_print_cluster_outputs",
     "tf_xla_compile_on_demand", "tf_xla_always_defer_compilation",
     "tf_introduce_floating_point_jitter_to_tensors",
     "tf_introduce_floating_point_jitter_amount",
     "tf_xla_auto_jit", "tf_xla_min_cluster_size", "tf_xla_max_cluster_size",
     "tf_xla_clustering_debug", "tf_xla_cpu_global_jit",
     "tf_xla_clustering_fuel",
     "tf_xla_disable_deadness_safety_checks_for_debugging"}

HasUnknownName(text) ==
    \E i \in 1..Len(SplitArgs(text)) : SplitArgs(text)[i][1] \notin KnownFlagNames

\* No call has returned, no thread is past a call_once or about to complete
\* one, nothing has been read, and the parse, once run, has ended the process.
NothingReturned ==
    /\ hist.returns = 0
    /\ flags_init # "done"
    /\ \A t \in Threads : ~PastCallOnce(t) /\ pc[t].at # "once_done"
    /\ \A g \in Groups : reads[g] = {}
    /\ hist.parse > 0 => ~alive

\* C5: when TF_XLA_FLAGS names a flag that is not in the table, the process
\* is terminated inside initialization: no accessor call and no append call
\* returns on any thread, and no flag value is read.
C5_UnknownFlagIsFatal == HasUnknownName(env) => NothingReturned

\* The parse has terminated the process on an unknown name that follows a
\* recognized flag, while another thread was waiting in call_once.
C5_Witness ==
    /\ HasUnknownName(env)
    /\ Len(SplitArgs(env)) = 2
    /\ ~alive
    /\ \E t \in Threads : pc[t].at = "call_once"

EnvNotANumber == <<"tf_xla_min_cluster_size", "=", "a", "b", "c">>
EnvTooLarge ==
    <<"tf_xla_max_cluster_size", "=", "2", "1", "4", "7", "4", "8", "3", "6",
      "4", "8">>

C7_JitterNamesSplit ==
    env = EnvJitterNames =>
        /\ \A v \in reads["jitter_flags"] :
              /\ v.tensor_names = NamesV(<<<<"a">>, <<"b">>, <<"c">>>>)
              /\ v.jitter_amount = FloatV(FALSE, <<1>>, -5)
        /\ \A g \in Groups \ {"jitter_flags"} :
              \A v \in reads[g] : v = DefaultsOf(g)

\* The jitter group and the clustering group have been read under it.
C7_Witness ==
    /\ env = EnvJitterNames
    /\ reads["jitter_flags"] # {}
    /\ reads["mark_for_compilation_flags"] # {}

\* A step of a thread that is inside AppendMarkForCompilationPassFlags.
AppendStep == \E t \in Threads : op[t] = AppendOp /\ pc'[t] # pc[t]

\* C8: once initialization has completed, no step of
\* AppendMarkForCompilationPassFlags changes a field of a group, moves a
\* group pointer, assigns defaults or parses the environment.
C8_AppendLeavesGroups ==
    [][(flags_init = "done" /\ AppendStep) =>
          /\ heap' = heap
          /\ ptr' = ptr
          /\ hist'.init = hist.init
          /\ hist'.defaults = hist.defaults
          /\ hist'.parse = hist.parse]_vars

\* Two appends have completed and the override of the environment is still
\* in place.
C8_Witness ==
    /\ env = EnvCluster
    /\ flags_init = "done"
    /\ hist.appends >= 2
    /\ Deref(heap, ptr["mark_for_compilation_flags"]) =
          ExpectedAfter(EnvCluster, "mark_for_compilation_flags")

ExpectedMarkAfterExt(e, xs) ==
    LET m == ExpectedAfter(e, "mark_for_compilation_flags")
        m1 == IF ExtSetsMin \in xs
              THEN [m EXCEPT !.tf_xla_min_cluster_size = IntV(FALSE, <<1, 2>>)]
              ELSE m
    IN  IF ExtSetsBools \in xs
        THEN [m1 EXCEPT !.tf_xla_clustering_debug = BoolV(FALSE),
                        !.tf_xla_cpu_global_jit = BoolV(TRUE)]
        ELSE m1

\* C10: when external callers have run parse passes over vectors holding
\* the appended descriptors, what a caller holding the result of
\* GetMarkForCompilationPassFlags reads is the clustering group with the
\* fields those passes named at the values they gave and every other field
\* at the value initialization left; the other four groups are as
\* initialization left them.
C10_AppendedDescriptorsShareStorage ==
    (env \in WellFormedEnvs /\ flags_init = "done") =>
        /\ \A t \in Threads :
              (pc[t].at = "use" /\ handle[t].g = "mark_for_compilation_flags") =>
                  Deref(heap, handle[t].addr) = ExpectedMarkAfterExt(env, hist.ext)
        /\ \A g \in Groups \ {"mark_for_compilation_flags"} :
              Deref(heap, ptr[g]) = ExpectedAfter(env, g)

\* After an append and an external pass that set the minimum cluster size
\* to 12, a caller has read 12 through GetMarkForCompilationPassFlags with
\* the clustering_debug override of the environment still in place.
C10_Witness ==
    /\ env = EnvCluster
    /\ hist.ext = {ExtSetsMin}
    /\ \E v \in reads["mark_for_compilation_flags"] :
          /\ v.tf_xla_min_cluster_size = IntV(FALSE, <<1, 2>>)
          /\ v.tf_xla_clustering_debug = BoolV(TRUE)

\* The accessors whose result lets the caller assign to the group.
WritableAccessors == {o \in Accessors : ReturnsPointer(GroupOf(o))}

\* The groups that only the clustering accessor's result would leave alone.
C11_ReadOnlyGroups ==
    {"build_ops_flags", "device_flags", "ops_flags", "jitter_flags"}

ClusteringNames ==
    {"tf_xla_auto_jit", "tf_xla_min_cluster_size", "tf_xla_max_cluster_size",
     "tf_xla_clustering_debug", "tf_xla_cpu_global_jit",
     "tf_xla_clustering_fuel",
     "tf_xla_disable_deadness_safety_checks_for_debugging"}

NamesIn(table) == {table[i].name : i \in 1..Len(table)}

\* C12: when the environment parse is about to start, and ever after it
\* has run, the table it is given holds thirteen descriptors, the seven
\* clustering ones among them; so an override text that names clustering
\* flags does not terminate the process, and as soon as initialization is
\* complete (the first call has not yet returned) the clustering group has
\* the values the text gave.
C12_ClusteringSeenByFirstParse ==
    /\ ((\E t \in Threads : pc[t].at = "parse") \/ hist.parse >= 1) =>
          /\ Len(flag_list.flags) = 13
          /\ ClusteringNames \subseteq NamesIn(flag_list.flags)
    /\ env \in {EnvCluster, EnvNumbers} => alive
    /\ (env = EnvCluster /\ flags_init = "done") =>
          /\ Deref(heap, ptr["mark_for_compilation_flags"]).tf_xla_min_cluster_size
                 = IntV(FALSE, <<1, 0>>)
          /\ Deref(heap, ptr["mark_for_compilation_flags"]).tf_xla_clustering_debug
                 = BoolV(TRUE)

\* The first call of the process was an accessor call, it has returned, and
\* the caller has read the clustering flags of the environment.
C12_Witness ==
    /\ env = EnvCluster
    /\ calls = 1
    /\ hist.returns = 1
    /\ \E v \in reads["mark_for_compilation_flags"] :
          v.tf_xla_min_cluster_size = IntV(FALSE, <<1, 0>>)

\* Thread t is inside a call of one of the six functions.
InCall(t) == pc[t].at \notin {"idle", "use"}

\* C13: under fair scheduling and with an override text that causes no
\* fatal error, a thread that is inside a call (waiting at its call_once
\* while another thread runs initialization included) gets out of it: the
\* accessor has returned its group or the append has returned; and
\* initialization is never entered a second time, so a released thread has
\* not run it itself.
C13_EveryCallReturns ==
    /\ \A t \in Threads :
          (env \in WellFormedEnvs /\ InCall(t)) ~> ~InCall(t)
    /\ \A t \in Threads :
          (env \in WellFormedEnvs /\ pc[t].at = "call_once"
             /\ flags_init = "running")
            ~> (PastCallOnce(t) /\ flags_init = "done" /\ hist.init = 1)
    /\ [](hist.init <= 1)

\* A thread waits at its call_once while another thread runs
\* initialization.
C13_Witness ==
    /\ env \in WellFormedEnvs
    /\ flags_init = "running"
    /\ \E t, u \in Threads :
          /\ pc[t].at = "call_once"
          /\ pc[u].at = "parse"

\* Descriptor d holds the address of a field of the allocated clustering
\* group.
TargetsClusteringField(d) ==
    /\ d.kind # "CustomSetter"
    /\ d.addr # NullPtr
    /\ d.addr = ptr["mark_for_compilation_flags"]
    /\ Allocated(heap, d.addr)
    /\ d.field \in DOMAIN heap[d.addr] \ {"type"}
    /\ heap[d.addr][d.field] # Indeterminate

\* C14: a call of AppendMarkForCompilationPassFlags that builds or inserts
\* descriptors does so with initialization complete, also when it is the
\* first call of the process; every descriptor it has built, and every
\* descriptor it has placed in a caller's vector (behind the caller's
\* own), holds the address of an assigned field of the allocated
\* clustering group.
C14_AppendTargetsAllocated ==
    /\ \A t \in Threads :
          pc[t].at \in {"new_flags", "insert"} =>
              flags_init = "done" /\ HistExactlyOnce
    /\ \A t \in Threads : \A i \in 1..Len(new_flags[t]) :
          TargetsClusteringField(new_flags[t][i])
    /\ \A id \in TableIds : \A i \in 2..Len(tables[id]) :
          TargetsClusteringField(tables[id][i])

\* The only call of the process so far was an append, and it has returned
\* with its descriptors in the caller's vector.
C14_Witness ==
    /\ calls = 1
    /\ hist.appends = 1
    /\ hist.returns = 1
    /\ reads = [g \in Groups |-> {}]
    /\ \E id \in TableIds : Len(tables[id]) = 8

\* The names of the appended descriptors, in the order of the braced list.
ClusteringOrder ==
    <<"tf_xla_auto_jit", "tf_xla_min_cluster_size", "tf_xla_max_cluster_size",
      "tf_xla_clustering_debug", "tf_xla_cpu_global_jit",
      "tf_xla_clustering_fuel",
      "tf_xla_disable_deadness_safety_checks_for_debugging">>

\* new is old with the seven clustering descriptors behind it.
Extends(old, new) ==
    /\ Len(new) = Len(old) + 7
    /\ SubSeq(new, 1, Len(old)) = old
    /\ [i \in 1..7 |-> new[Len(old) + i].name] = ClusteringOrder

\* C15: every step that returns from an append changes the vector it was
\* given, and every step that changes a vector (a caller's, or the table of
\* initialization once it has been built) leaves the entries it held where
\* they were, as a prefix of the new contents, and puts exactly the seven
\* clustering descriptors behind them in the order auto_jit,
\* min_cluster_size, max_cluster_size, clustering_debug, cpu_global_jit,
\* clustering_fuel, disable_deadness_safety_checks_for_debugging.
C15_AppendExtendsTable ==
    [][ /\ hist'.appends # hist.appends =>
              \E id \in TableIds : tables'[id] # tables[id]
        /\ \A id \in TableIds :
              tables'[id] # tables[id] => Extends(tables[id], tables'[id])
        /\ (~flag_list.null /\ flag_list'.flags # flag_list.flags) =>
              Extends(flag_list.flags, flag_list'.flags)
      ]_vars

\* An append has returned: the caller's own descriptor is still first in
\* its vector and the last of the seven is last.
C15_Witness ==
    \E id \in TableIds :
        /\ Len(tables[id]) = 8
        /\ tables[id][1] = CallerFlag
        /\ tables[id][8].name =
               "tf_xla_disable_deadness_safety_checks_for_debugging"

\* The fields of a group object that a scalar descriptor can be bound to:
\* every field but the sequence tensor_names.
ScalarFields(obj) == DOMAIN obj \ {"type", "tensor_names"}

\* The positions of table whose descriptor is bound to field f of the object
\* at address a.
BoundTo(table, a, f) ==
    {i \in 1..Len(table) :
        /\ table[i].kind # "CustomSetter"
        /\ table[i].addr = a
        /\ table[i].field = f}

ScalarPositions(table) ==
    {i \in 1..Len(table) : table[i].kind # "CustomSetter"}
SetterPositions(table) ==
    {i \in 1..Len(table) : table[i].kind = "CustomSetter"}

\* C16: when the environment parse is about to start, and ever after it
\* has run, the table of initialization holds thirteen descriptors with
\* pairwise distinct names; twelve are scalar descriptors and one, named
\* tf_introduce_floating_point_jitter_to_tensors, has the custom setter;
\* every scalar field of each of the five groups is the target of exactly
\* one descriptor, and every scalar descriptor targets such a field.
C16_ParsedTableShape ==
    ((\E t \in Threads : pc[t].at = "parse") \/ hist.parse >= 1) =>
        LET table == flag_list.flags
        IN  /\ Len(table) = 13
            /\ \A i, j \in 1..Len(table) :
                  table[i].name = table[j].name => i = j
            /\ Cardinality(ScalarPositions(table)) = 12
            /\ \A i \in SetterPositions(table) :
                  /\ table[i].name = "tf_introduce_floating_point_jitter_to_tensors"
                  /\ table[i].setter = "setter_for_jitter_tensor_names"
            /\ Cardinality(SetterPositions(table)) = 1
            /\ \A g \in Groups :
                  /\ Allocated(heap, ptr[g])
                  /\ \A f \in ScalarFields(heap[ptr[g]]) :
                        Cardinality(BoundTo(table, ptr[g], f)) = 1
            /\ \A i \in ScalarPositions(table) :
                  \E g \in Groups :
                      /\ table[i].addr = ptr[g]
                      /\ table[i].field \in ScalarFields(heap[ptr[g]])
            /\ Cardinality(UNION {{<<g, f>> : f \in ScalarFields(heap[ptr[g]])} :
                                     g \in Groups}) = 12

\* The parse has run over the table and initialization is complete.
C16_Witness ==
    /\ hist.parse = 1
    /\ flags_init = "done"
    /\ Len(flag_list.flags) = 13
    /\ env = EnvNumbers

\* The positions of table at which a descriptor named n stands.
Occurrences(table, n) == {i \in 1..Len(table) : table[i].name = n}

\* C17: a vector that k appends have returned on holds 7 * k descriptors
\* more than before the first (here: than the caller's one); each
\* clustering name stands in it k times, twice after two appends, and all
\* occurrences of a name are bound to the same field of the same object.
C17_AppendsNotDeduplicated ==
    \A id \in TableIds :
        /\ Len(tables[id]) = Len(<<CallerFlag>>) + 7 * hist.appends
        /\ \A n \in ClusteringNames :
              /\ Cardinality(Occurrences(tables[id], n)) = hist.appends
              /\ \A i, j \in Occurrences(tables[id], n) :
                    /\ tables[id][i].addr = tables[id][j].addr
                    /\ tables[id][i].field = tables[id][j].field
                    /\ tables[id][i].field = n

\* Two appends have returned on the same vector and each clustering name
\* stands in it twice.
C17_Witness ==
    /\ hist.appends = 2
    /\ \E id \in TableIds :
          /\ Len(tables[id]) = 15
          /\ \A n \in ClusteringNames :
                Cardinality(Occurrences(tables[id], n)) = 2

\* Thread t is between the two steps of the insert.
Inserting(t) == pc[t].at = "inserting"

\* C18: a thread that has reached the insert of
\* AppendMarkForCompilationPassFlags has done so with initialization
\* complete and run once, and it can go into the insert whatever the other
\* threads are doing, also while another thread is inside the insert on
\* the same vector: the call_once before it orders the call after
\* initialization and nothing else.
C18_InsertNotSerialized ==
    /\ hist.init <= 1
    /\ \A t \in Threads :
          pc[t].at \in {"insert", "inserting"} =>
              flags_init = "done" /\ HistExactlyOnce
    /\ \A t \in Threads :
          (alive /\ pc[t].at = "insert") => ENABLED InsertBegin(t)

\* Two threads are inside the insert on the same vector at the same time,
\* after the one initialization.
C18_Witness ==
    /\ flags_init = "done"
    /\ hist.init = 1
    /\ \E t, u \in Threads :
          /\ t # u
          /\ Inserting(t)
          /\ Inserting(u)
          /\ tab[t] = tab[u]
          /\ tab[t] \in TableIds

\* The number of commas in text s.
Commas(s) == Cardinality({i \in 1..Len(s) : s[i] = ","})

\* The names with a comma between each two, as one text.
RECURSIVE JoinNames(_)
JoinNames(names) ==
    IF Len(names) = 0 THEN <<>>
    ELSE IF Len(names) = 1 THEN names[1]
    ELSE names[1] \o <<",">> \o JoinNames(Tail(names))

\* C19: whatever text the custom setter is called with, it reports success,
\* and tensor_names then holds the pieces of that text between its commas
\* and nothing of what it held before: one more name than the text has
\* commas, none of them with a comma in it, which joined by commas give the
\* text back; for the empty text that is one empty name.
C19_SetterReplacesNames ==
    hist.setter.called =>
        LET names == heap[ptr["jitter_flags"]].tensor_names.names
            input == hist.setter.input
        IN  /\ hist.setter.ok = TRUE
            /\ Len(names) = Commas(input) + 1
            /\ \A k \in 1..Len(names) : Commas(names[k]) = 0
            /\ JoinNames(names) = input
            /\ input = <<>> => names = << <<>> >>

\* The setter has been called with the empty text when tensor_names held
\* three names, and has left one empty name.
C19_Witness ==
    /\ hist.setter.called
    /\ hist.setter.input = <<>>
    /\ Len(hist.setter.before.names) = 3
    /\ heap[ptr["jitter_flags"]].tensor_names = NamesV(<< <<>> >>)

====
